---- MODULE Spec2Model ----
(***************************************************************************)
(* Penguin species classification: the FastAPI serving application         *)
(* (src/app/main.py) and the offline training script                       *)
(* (src/train_model_advanced.py).                                          *)
(*                                                                         *)
(* Units.  A measurement is a float, named by a decimal it is the nearest  *)
(* float to (39.1 is the digits 3, 9, 1 at 10^-1), and a confidence is     *)
(* held in hundredths (0.85 is 85).                                        *)
(***************************************************************************)
EXTENDS Integers, Sequences, FiniteSets, TLC

VARIABLES
    reqs,        \* serving: the state of every in-flight HTTP request, by connection
    errorLog,    \* serving: what logger.error has written (main.py:83), shared by all requests
    pc,          \* training: the position of train_advanced_model
    raw,         \* training: the dataset sns.load_dataset returns
    df,          \* training: the DataFrame df
    df_encoded,  \* training: the DataFrame df_encoded (its columns and its rows)
    labels,      \* training: label_encoder.classes_ and y
    X,           \* training: the feature matrix X (its columns and its rows)
    split,       \* training: the train/test partition of the row indices
    model,       \* training: the XGBClassifier (what it was fitted on)
    accuracy,    \* training: model.score on the test partition
    disk,        \* training: the files under app/data
    error        \* training: the exception that ended the run, "" if none

servingVars == <<reqs, errorLog>>
trainingVars == <<pc, raw, df, df_encoded, labels, X, split, model, accuracy, disk, error>>
vars == <<reqs, errorLog, pc, raw, df, df_encoded, labels, X, split, model, accuracy, disk, error>>

Range(s) == {s[k] : k \in 1..Len(s)}

Min(S) == CHOOSE k \in S : \A j \in S : k <= j

Max(S) == CHOOSE k \in S : \A j \in S : k >= j

(***************************************************************************)
(* Decimals                                                                *)
(*                                                                         *)
(* A decimal is the list of its digits, most significant first, without a  *)
(* leading or a trailing zero, and the power of ten e of its last digit:   *)
(* digits * 10^e.  The empty list is zero.  Its length is not bounded.     *)
(***************************************************************************)
Decimal(ds, e) ==
    LET nz == {k \in 1..Len(ds) : ds[k] # 0}
    IN  IF nz = {}
        THEN [digits |-> <<>>, e |-> 0]
        ELSE [digits |-> SubSeq(ds, Min(nz), Max(nz)), e |-> e + (Len(ds) - Max(nz))]

\* The digits of the natural number n.
RECURSIVE DigitsOf(_)
DigitsOf(n) == IF n = 0 THEN <<>> ELSE Append(DigitsOf(n \div 10), n % 10)

\* 10^(Order(d) - 1) <= d < 10^Order(d), for d > 0.
Order(d) == Len(d.digits) + d.e

DigitAt(d, k) == IF k <= Len(d.digits) THEN d.digits[k] ELSE 0

\* a < b, for decimals a > 0 and b > 0.
DecLess(a, b) ==
    IF Order(a) # Order(b)
    THEN Order(a) < Order(b)
    ELSE LET differ == {k \in 1..Max({Len(a.digits), Len(b.digits)}) :
                           DigitAt(a, k) # DigitAt(b, k)}
         IN  differ # {} /\ DigitAt(a, Min(differ)) < DigitAt(b, Min(differ))

(***************************************************************************)
(* Python floats                                                           *)
(*                                                                         *)
(* A finite float is named by a sign and a decimal: it is the float        *)
(* nearest to that decimal, ties to even.  The other floats are the two    *)
(* infinities and nan.                                                     *)
(***************************************************************************)
Finite(neg, d) == [cls |-> "finite", neg |-> neg, digits |-> d.digits, e |-> d.e]

Inf(neg) == [cls |-> "inf", neg |-> neg, digits |-> <<>>, e |-> 0]

NaN == [cls |-> "nan", neg |-> FALSE, digits |-> <<>>, e |-> 0]

Zero(neg) == [cls |-> "finite", neg |-> neg, digits |-> <<>>, e |-> 0]

\* The decimal that names the finite float x.
DecimalOf(x) == [digits |-> x.digits, e |-> x.e]

\* 2^1024 - 2^970, half-way between the greatest finite float and 2^1024: a
\* magnitude rounds to a finite float exactly when it is less.
FloatOverflow ==
    [digits |-> <<
      1, 7, 9, 7, 6, 9, 3, 1, 3, 4, 8, 6, 2, 3, 1, 5, 8, 0, 7, 9, 3, 7, 2, 8, 9, 7, 1, 4, 0, 5,
      3, 0, 3, 4, 1, 5, 0, 7, 9, 9, 3, 4, 1, 3, 2, 7, 1, 0, 0, 3, 7, 8, 2, 6, 9, 3, 6, 1, 7, 3,
      7, 7, 8, 9, 8, 0, 4, 4, 4, 9, 6, 8, 2, 9, 2, 7, 6, 4, 7, 5, 0, 9, 4, 6, 6, 4, 9, 0, 1, 7,
      9, 7, 7, 5, 8, 7, 2, 0, 7, 0, 9, 6, 3, 3, 0, 2, 8, 6, 4, 1, 6, 6, 9, 2, 8, 8, 7, 9, 1, 0,
      9, 4, 6, 5, 5, 5, 5, 4, 7, 8, 5, 1, 9, 4, 0, 4, 0, 2, 6, 3, 0, 6, 5, 7, 4, 8, 8, 6, 7, 1,
      5, 0, 5, 8, 2, 0, 6, 8, 1, 9, 0, 8, 9, 0, 2, 0, 0, 0, 7, 0, 8, 3, 8, 3, 6, 7, 6, 2, 7, 3,
      8, 5, 4, 8, 4, 5, 8, 1, 7, 7, 1, 1, 5, 3, 1, 7, 6, 4, 4, 7, 5, 7, 3, 0, 2, 7, 0, 0, 6, 9,
      8, 5, 5, 5, 7, 1, 3, 6, 6, 9, 5, 9, 6, 2, 2, 8, 4, 2, 9, 1, 4, 8, 1, 9, 8, 6, 0, 8, 3, 4,
      9, 3, 6, 4, 7, 5, 2, 9, 2, 7, 1, 9, 0, 7, 4, 1, 6, 8, 4, 4, 4, 3, 6, 5, 5, 1, 0, 7, 0, 4,
      3, 4, 2, 7, 1, 1, 5, 5, 9, 6, 9, 9, 5, 0, 8, 0, 9, 3, 0, 4, 2, 8, 8, 0, 1, 7, 7, 9, 0, 4,
      1, 7, 4, 4, 9, 7, 7, 9, 2>>,
     e |-> 0]

\* 2^-1075 = 5^1075 * 10^-1075, half the least positive float: a magnitude
\* rounds to zero exactly when it is not greater.
FloatUnderflow ==
    [digits |-> <<
      2, 4, 7, 0, 3, 2, 8, 2, 2, 9, 2, 0, 6, 2, 3, 2, 7, 2, 0, 8, 8, 2, 8, 4, 3, 9, 6, 4, 3, 4,
      1, 1, 0, 6, 8, 6, 1, 8, 2, 5, 2, 9, 9, 0, 1, 3, 0, 7, 1, 6, 2, 3, 8, 2, 2, 1, 2, 7, 9, 2,
      8, 4, 1, 2, 5, 0, 3, 3, 7, 7, 5, 3, 6, 3, 5, 1, 0, 4, 3, 7, 5, 9, 3, 2, 6, 4, 9, 9, 1, 8,
      1, 8, 0, 8, 1, 7, 9, 9, 6, 1, 8, 9, 8, 9, 8, 2, 8, 2, 3, 4, 7, 7, 2, 2, 8, 5, 8, 8, 6, 5,
      4, 6, 3, 3, 2, 8, 3, 5, 5, 1, 7, 7, 9, 6, 9, 8, 9, 8, 1, 9, 9, 3, 8, 7, 3, 9, 8, 0, 0, 5,
      3, 9, 0, 9, 3, 9, 0, 6, 3, 1, 5, 0, 3, 5, 6, 5, 9, 5, 1, 5, 5, 7, 0, 2, 2, 6, 3, 9, 2, 2,
      9, 0, 8, 5, 8, 3, 9, 2, 4, 4, 9, 1, 0, 5, 1, 8, 4, 4, 3, 5, 9, 3, 1, 8, 0, 2, 8, 4, 9, 9,
      3, 6, 5, 3, 6, 1, 5, 2, 5, 0, 0, 3, 1, 9, 3, 7, 0, 4, 5, 7, 6, 7, 8, 2, 4, 9, 2, 1, 9, 3,
      6, 5, 6, 2, 3, 6, 6, 9, 8, 6, 3, 6, 5, 8, 4, 8, 0, 7, 5, 7, 0, 0, 1, 5, 8, 5, 7, 6, 9, 2,
      6, 9, 9, 0, 3, 7, 0, 6, 3, 1, 1, 9, 2, 8, 2, 7, 9, 5, 5, 8, 5, 5, 1, 3, 3, 2, 9, 2, 7, 8,
      3, 4, 3, 3, 8, 4, 0, 9, 3, 5, 1, 9, 7, 8, 0, 1, 5, 5, 3, 1, 2, 4, 6, 5, 9, 7, 2, 6, 3, 5,
      7, 9, 5, 7, 4, 6, 2, 2, 7, 6, 6, 4, 6, 5, 2, 7, 2, 8, 2, 7, 2, 2, 0, 0, 5, 6, 3, 7, 4, 0,
      0, 6, 4, 8, 5, 4, 9, 9, 9, 7, 7, 0, 9, 6, 5, 9, 9, 4, 7, 0, 4, 5, 4, 0, 2, 0, 8, 2, 8, 1,
      6, 6, 2, 2, 6, 2, 3, 7, 8, 5, 7, 3, 9, 3, 4, 5, 0, 7, 3, 6, 3, 3, 9, 0, 0, 7, 9, 6, 7, 7,
      6, 1, 9, 3, 0, 5, 7, 7, 5, 0, 6, 7, 4, 0, 1, 7, 6, 3, 2, 4, 6, 7, 3, 6, 0, 0, 9, 6, 8, 9,
      5, 1, 3, 4, 0, 5, 3, 5, 5, 3, 7, 4, 5, 8, 5, 1, 6, 6, 6, 1, 1, 3, 4, 2, 2, 3, 7, 6, 6, 6,
      7, 8, 6, 0, 4, 1, 6, 2, 1, 5, 9, 6, 8, 0, 4, 6, 1, 9, 1, 4, 4, 6, 7, 2, 9, 1, 8, 4, 0, 3,
      0, 0, 5, 3, 0, 0, 5, 7, 5, 3, 0, 8, 4, 9, 0, 4, 8, 7, 6, 5, 3, 9, 1, 7, 1, 1, 3, 8, 6, 5,
      9, 1, 6, 4, 6, 2, 3, 9, 5, 2, 4, 9, 1, 2, 6, 2, 3, 6, 5, 3, 8, 8, 1, 8, 7, 9, 6, 3, 6, 2,
      3, 9, 3, 7, 3, 2, 8, 0, 4, 2, 3, 8, 9, 1, 0, 1, 8, 6, 7, 2, 3, 4, 8, 4, 9, 7, 6, 6, 8, 2,
      3, 5, 0, 8, 9, 8, 6, 3, 3, 8, 8, 5, 8, 7, 9, 2, 5, 6, 2, 8, 3, 0, 2, 7, 5, 5, 9, 9, 5, 6,
      5, 7, 5, 2, 4, 4, 5, 5, 5, 0, 7, 2, 5, 5, 1, 8, 9, 3, 1, 3, 6, 9, 0, 8, 3, 6, 2, 5, 4, 7,
      7, 9, 1, 8, 6, 9, 4, 8, 6, 6, 7, 9, 9, 4, 9, 6, 8, 3, 2, 4, 0, 4, 9, 7, 0, 5, 8, 2, 1, 0,
      2, 8, 5, 1, 3, 1, 8, 5, 4, 5, 1, 3, 9, 6, 2, 1, 3, 8, 3, 7, 7, 2, 2, 8, 2, 6, 1, 4, 5, 4,
      3, 7, 6, 9, 3, 4, 1, 2, 5, 3, 2, 0, 9, 8, 5, 9, 1, 3, 2, 7, 6, 6, 7, 2, 3, 6, 3, 2, 8, 1,
      2, 5>>,
     e |-> -1075]

\* Whether the magnitude d > 0 is beyond the finite floats.
Overflows(d) == ~DecLess(d, FloatOverflow)

\* Whether the magnitude d > 0 rounds to zero.
Underflows(d) == ~DecLess(FloatUnderflow, d)

\* float() of a decimal literal: the nearest float, an infinity beyond the
\* finite floats, a zero below them.
FromDecimal(neg, d) ==
    IF d.digits = <<>> THEN Zero(neg)
    ELSE IF Overflows(d) THEN Inf(neg)
    ELSE IF Underflows(d) THEN Zero(neg)
    ELSE Finite(neg, d)

\* 45 + 2^-48 and 18 + 2^-49: half-way between the int the code compares with
\* and the next float above it.  45.0 and 18.0 have an even significand, so
\* the half-way decimal itself rounds down to them.
HalfwayAbove45 ==
    [digits |-> <<
      4, 5, 0, 0, 0, 0, 0, 0, 0, 0, 0, 0, 0, 0, 0, 0, 3, 5, 5, 2, 7, 1, 3, 6, 7, 8, 8, 0, 0, 5,
      0, 0, 9, 2, 9, 3, 5, 5, 6, 2, 1, 3, 3, 7, 8, 9, 0, 6, 2, 5>>,
     e |-> -48]

HalfwayAbove18 ==
    [digits |-> <<
      1, 8, 0, 0, 0, 0, 0, 0, 0, 0, 0, 0, 0, 0, 0, 0, 1, 7, 7, 6, 3, 5, 6, 8, 3, 9, 4, 0, 0, 2,
      5, 0, 4, 6, 4, 6, 7, 7, 8, 1, 0, 6, 6, 8, 9, 4, 5, 3, 1, 2, 5>>,
     e |-> -49]

HalfwayAbove(t) == CASE t = 45 -> HalfwayAbove45 [] t = 18 -> HalfwayAbove18

\* x > t, for a float x and the ints t the code compares with (45 and 18): the
\* float nearest to a decimal is greater than t exactly when the decimal is
\* greater than HalfwayAbove(t).
Gt(x, t) ==
    CASE x.cls = "nan" -> FALSE
      [] x.cls = "inf" -> ~x.neg
      [] OTHER -> ~x.neg /\ x.digits # <<>> /\ DecLess(HalfwayAbove(t), DecimalOf(x))

(***************************************************************************)
(* JSON values of a request body                                           *)
(*                                                                         *)
(* A string is the list of its characters; a character that cannot be      *)
(* printed is written as its code point ("U+000B").  A number is an        *)
(* integer literal, a literal with a fraction or an exponent, or one of    *)
(* the tokens NaN, Infinity, -Infinity that json.loads reads.              *)
(***************************************************************************)
JValue(kind, form, neg, digits, e, text) ==
    [kind |-> kind, form |-> form, neg |-> neg, digits |-> digits, e |-> e, text |-> text]

\* the integer literal (-)digits followed by e zeros
JInt(neg, digits, e) == JValue("number", "int", neg, digits, e, <<>>)
\* the literal (-)digits * 10^e, written with a fraction or an exponent
JFloat(neg, digits, e) == JValue("number", "float", neg, digits, e, <<>>)
JNaN == JValue("number", "NaN", FALSE, <<>>, 0, <<>>)
JInfinity(neg) == JValue("number", "Infinity", neg, <<>>, 0, <<>>)
JString(s) == JValue("string", "", FALSE, <<>>, 0, s)
JBool(b) == JValue("boolean", "", FALSE, IF b THEN <<1>> ELSE <<>>, 0, <<>>)
JNull == JValue("null", "", FALSE, <<>>, 0, <<>>)
\* the empty list []
JArray == JValue("array", "", FALSE, <<>>, 0, <<>>)
\* the key is not in the body
Absent == JValue("absent", "", FALSE, <<>>, 0, <<>>)

\* The fields PenguinFeatures declares, in declaration order.
RequiredFields == <<"bill_length_mm", "bill_depth_mm", "flipper_length_mm", "body_mass_g">>

RequiredFieldSet == {RequiredFields[k] : k \in 1..Len(RequiredFields)}

\* The strings the bodies below carry.
Str_not_a_number == <<"n", "o", "t", "_", "a", "_", "n", "u", "m", "b", "e", "r">>

\* "\u000b46.5 "
Str_46_5_padded == <<"U+000B", "4", "6", ".", "5", " ">>

Str_1e2 == <<"1", "e", "2">>

Str_nan == <<"n", "a", "n">>

Str_inf == <<"i", "n", "f">>

Str_1_8 == <<"1", "_", "8">>

Str_dot == <<".">>

Str_male == <<"m", "a", "l", "e">>

Str_unknown == <<"u", "n", "k", "n", "o", "w", "n">>

\* The literals 45.000000000000001 and 45.00000000000001: the first is nearest
\* to the float 45.0, the second to the float after it.
Num_45_1e15 == JFloat(FALSE, <<4, 5, 0, 0, 0, 0, 0, 0, 0, 0, 0, 0, 0, 0, 0, 0, 1>>, -15)

Num_45_1e14 == JFloat(FALSE, <<4, 5, 0, 0, 0, 0, 0, 0, 0, 0, 0, 0, 0, 0, 0, 1>>, -14)

\* The literal 18.000000000000001, nearest to the float 18.0.
Num_18_1e15 == JFloat(FALSE, <<1, 8, 0, 0, 0, 0, 0, 0, 0, 0, 0, 0, 0, 0, 0, 0, 1>>, -15)

\* The integer literals 10**309 and -10**309, and a one followed by 4300 zeros.
Num_1e309 == JInt(FALSE, <<1>>, 309)

Num_minus_1e309 == JInt(TRUE, <<1>>, 309)

Num_1e4300 == JInt(FALSE, <<1>>, 4300)

\* The values a request may carry for each key.
FieldValues(f) ==
    CASE f = "bill_length_mm" ->
            {Absent, JNull, JBool(TRUE), JString(Str_not_a_number), JString(Str_46_5_padded),
             JString(Str_1e2), JString(Str_nan), JNaN, Num_1e309,
             JFloat(FALSE, DigitsOf(391), -1), JInt(FALSE, DigitsOf(45), 0),
             Num_45_1e15, Num_45_1e14, JFloat(FALSE, DigitsOf(451), -1)}
      [] f = "bill_depth_mm" ->
            {Absent, JArray, JString(Str_not_a_number), JString(<<>>), JString(Str_dot),
             JString(Str_inf), JString(Str_1_8),
             JInt(FALSE, DigitsOf(17), 0), JInt(FALSE, DigitsOf(18), 0), Num_18_1e15,
             JFloat(FALSE, DigitsOf(187), -1), JFloat(FALSE, <<1>>, 400)}
      [] f = "flipper_length_mm" ->
            {Absent, JNull, JInt(FALSE, DigitsOf(181), 0), JInt(FALSE, DigitsOf(217), 0)}
      [] f = "body_mass_g" ->
            {Absent, JString(Str_not_a_number), JInt(FALSE, DigitsOf(3750), 0),
             JInt(FALSE, DigitsOf(5000), 0), Num_minus_1e309}
      [] f = "sex" ->
            {Absent, JString(Str_male), JString(Str_unknown), Num_1e4300}

Bodies == [bill_length_mm : FieldValues("bill_length_mm"),
           bill_depth_mm : FieldValues("bill_depth_mm"),
           flipper_length_mm : FieldValues("flipper_length_mm"),
           body_mass_g : FieldValues("body_mass_g"),
           sex : FieldValues("sex")]

\* The record of test_predict_valid_input.
SampleBody == [bill_length_mm |-> JFloat(FALSE, DigitsOf(391), -1),
               bill_depth_mm |-> JFloat(FALSE, DigitsOf(187), -1),
               flipper_length_mm |-> JInt(FALSE, DigitsOf(181), 0),
               body_mass_g |-> JInt(FALSE, DigitsOf(3750), 0),
               sex |-> Absent]

\* The bodies of the concurrent specification: the sample record, records that
\* differ from it in one measurement, and the two invalid bodies of the tests.
ConcBodies ==
    {SampleBody,
     [SampleBody EXCEPT !.bill_length_mm = JFloat(FALSE, DigitsOf(451), -1)],
     [SampleBody EXCEPT !.bill_depth_mm = JInt(FALSE, DigitsOf(17), 0)],
     [SampleBody EXCEPT !.flipper_length_mm = JInt(FALSE, DigitsOf(217), 0)],
     [SampleBody EXCEPT !.body_mass_g = Absent],
     [SampleBody EXCEPT !.bill_length_mm = JString(Str_not_a_number)]}

NoBody == [bill_length_mm |-> Absent, bill_depth_mm |-> Absent,
           flipper_length_mm |-> Absent, body_mass_g |-> Absent, sex |-> Absent]

NoFeatures == [f \in RequiredFieldSet |-> Zero(FALSE)]

(***************************************************************************)
(* Reading the body: json.loads                                            *)
(***************************************************************************)
\* sys.int_max_str_digits: int() of a literal with more digits raises
\* ValueError.
IntMaxStrDigits == 4300

\* Whether json.loads raises on the value.
Unreadable(v) ==
    v.kind = "number" /\ v.form = "int" /\ Len(v.digits) + v.e > IntMaxStrDigits

\* Whether json.loads reads the body; FastAPI answers 400 when it does not.
JsonLoads(body) == \A k \in DOMAIN body : ~Unreadable(body[k])

\* Whether json.loads reads the value as nan or an infinity: one of the
\* tokens, or a literal beyond the finite floats.
NonFinite(v) ==
    /\ v.kind = "number"
    /\ \/ v.form \in {"NaN", "Infinity"}
       \/ v.form = "float" /\ v.digits # <<>> /\ Overflows(Decimal(v.digits, v.e))

(***************************************************************************)
(* Request validation: pydantic's handling of a `float` field, in the lax  *)
(* mode FastAPI validates bodies in                                        *)
(***************************************************************************)
\* The characters with the Unicode property White_Space, which str.trim()
\* strips.
Whitespace ==
    {"\t", "\n", "U+000B", "\f", "\r", " ", "U+0085", "U+00A0", "U+1680",
     "U+2000", "U+2001", "U+2002", "U+2003", "U+2004", "U+2005", "U+2006",
     "U+2007", "U+2008", "U+2009", "U+200A", "U+2028", "U+2029", "U+202F",
     "U+205F", "U+3000"}

Digits == <<"0", "1", "2", "3", "4", "5", "6", "7", "8", "9">>

DigitVal(c) == (CHOOSE k \in 1..Len(Digits) : Digits[k] = c) - 1

AllDigits(s) == \A k \in 1..Len(s) : s[k] \in Range(Digits)

\* The natural number a list of digits spells.
RECURSIVE DigitsValue(_)
DigitsValue(s) ==
    IF Len(s) = 0 THEN 0
    ELSE 10 * DigitsValue(SubSeq(s, 1, Len(s) - 1)) + DigitVal(s[Len(s)])

\* An exponent of more than seven digits is as good as ten million: the
\* literal overflows, or underflows, all the same.
ExponentValue(s) ==
    LET nz == {k \in 1..Len(s) : s[k] # "0"}
    IN  IF nz = {} THEN 0
        ELSE IF Len(s) - Min(nz) + 1 > 7 THEN 10000000
        ELSE DigitsValue(SubSeq(s, Min(nz), Len(s)))

\* The letters of the float grammar, in lower case.
Lower(c) ==
    CASE c = "E" -> "e" [] c = "I" -> "i" [] c = "N" -> "n" [] c = "F" -> "f"
      [] c = "A" -> "a" [] c = "T" -> "t" [] c = "Y" -> "y" [] OTHER -> c

\* str.trim(): the string without its leading and trailing whitespace.
Trim(s) ==
    LET keep == {k \in 1..Len(s) : s[k] \notin Whitespace}
    IN  IF keep = {} THEN <<>> ELSE SubSeq(s, Min(keep), Max(keep))

NotAFloat == [ok |-> FALSE, val |-> Zero(FALSE)]

\* The parse of a string as a float, without regard to case:
\*   Float  ::= Sign? ( 'inf' | 'infinity' | 'nan' | Number )
\*   Number ::= ( Digit+ | Digit+ '.' Digit* | Digit* '.' Digit+ ) Exp?
\*   Exp    ::= 'e' Sign? Digit+
ParseFloat(s) ==
    LET signed == Len(s) > 0 /\ s[1] \in {"+", "-"}
        neg == signed /\ s[1] = "-"
        rest == IF signed THEN Tail(s) ELSE s
        t == [k \in 1..Len(rest) |-> Lower(rest[k])]
        es == {k \in 1..Len(t) : t[k] = "e"}
        mant == IF es = {} THEN t ELSE SubSeq(t, 1, Min(es) - 1)
        expo == IF es = {} THEN <<>> ELSE SubSeq(t, Min(es) + 1, Len(t))
        dots == {k \in 1..Len(mant) : mant[k] = "."}
        ip == IF dots = {} THEN mant ELSE SubSeq(mant, 1, Min(dots) - 1)
        fp == IF dots = {} THEN <<>> ELSE SubSeq(mant, Min(dots) + 1, Len(mant))
        esigned == Len(expo) > 0 /\ expo[1] \in {"+", "-"}
        edigits == IF esigned THEN Tail(expo) ELSE expo
        wellFormed ==
            /\ AllDigits(ip) /\ AllDigits(fp)
            /\ Len(ip) + Len(fp) > 0
            /\ es # {} => (Len(edigits) > 0 /\ AllDigits(edigits))
        exponent == IF esigned /\ expo[1] = "-" THEN 0 - ExponentValue(edigits)
                    ELSE ExponentValue(edigits)
        digits == [k \in 1..(Len(ip) + Len(fp)) |-> DigitVal((ip \o fp)[k])]
    IN  IF t \in {<<"i", "n", "f">>, <<"i", "n", "f", "i", "n", "i", "t", "y">>}
        THEN [ok |-> TRUE, val |-> Inf(neg)]
        ELSE IF t = <<"n", "a", "n">>
        THEN [ok |-> TRUE, val |-> NaN]
        ELSE IF wellFormed
        THEN [ok |-> TRUE, val |-> FromDecimal(neg, Decimal(digits, exponent - Len(fp)))]
        ELSE NotAFloat

\* The string without its underscores, when it has some, none of them first,
\* last or doubled.
StripUnderscores(s) ==
    LET us == {k \in 1..Len(s) : s[k] = "_"}
    IN  IF us = {} \/ 1 \in us \/ Len(s) \in us \/ (\E k \in us : k + 1 \in us)
        THEN [ok |-> FALSE, str |-> <<>>]
        ELSE [ok |-> TRUE, str |-> SelectSeq(s, LAMBDA c : c # "_")]

\* A str for a float field: the trimmed string is parsed; when that fails, the
\* string without its underscores is.
StrAsFloat(s) ==
    LET direct == ParseFloat(Trim(s))
        stripped == StripUnderscores(s)
    IN  IF direct.ok THEN direct
        ELSE IF stripped.ok THEN ParseFloat(stripped.str)
        ELSE NotAFloat

\* A float is taken as it is (nan and the infinities too), an int is converted
\* and is an error when it is beyond the finite floats, a bool is taken as 0.0
\* or 1.0, a str is parsed; None, a list and an absent key are errors.
CoerceFloat(v) ==
    CASE v.kind = "number" /\ v.form = "int" ->
            LET d == Decimal(v.digits, v.e)
            IN  IF d.digits # <<>> /\ Overflows(d)
                THEN NotAFloat
                ELSE [ok |-> TRUE, val |-> Finite(v.neg /\ d.digits # <<>>, d)]
      [] v.kind = "number" /\ v.form = "float" ->
            [ok |-> TRUE, val |-> FromDecimal(v.neg, Decimal(v.digits, v.e))]
      [] v.kind = "number" /\ v.form = "NaN" -> [ok |-> TRUE, val |-> NaN]
      [] v.kind = "number" /\ v.form = "Infinity" -> [ok |-> TRUE, val |-> Inf(v.neg)]
      [] v.kind = "boolean" -> [ok |-> TRUE, val |-> Finite(FALSE, Decimal(v.digits, 0))]
      [] v.kind = "string" -> StrAsFloat(v.text)
      [] OTHER -> NotAFloat

\* PenguinFeatures(**body), for a body json.loads has read: every declared
\* field must be present and coerce to float; keys the model does not declare
\* are ignored.
PenguinFeatures(body) ==
    [ok |-> \A f \in RequiredFieldSet : CoerceFloat(body[f]).ok,
     features |-> [f \in RequiredFieldSet |-> CoerceFloat(body[f]).val]]

\* Whether the 422 response can be written.  It carries the input of every
\* error: the whole body for a missing key, the offending value otherwise
\* (None, a str, a list, an int).  json.dumps(allow_nan=False) raises on a nan
\* or an infinity, and the request is answered 500.
ErrorsSerializable(body) ==
    ~ /\ \E f \in RequiredFieldSet : body[f].kind = "absent"
      /\ \E k \in DOMAIN body : NonFinite(body[k])

(***************************************************************************)
(* Responses                                                               *)
(***************************************************************************)
NoResponse == [status |-> 0, species |-> "", confidence |-> 0, message |-> ""]

PredictionResponse(species, confidence) ==
    [status |-> 200, species |-> species, confidence |-> confidence,
     message |-> "Prediction successful"]

ValidationError == [status |-> 422, species |-> "", confidence |-> 0, message |-> "validation error"]

\* FastAPI's answer to a body json.loads cannot read.
BadRequest == [status |-> 400, species |-> "", confidence |-> 0,
               message |-> "There was an error parsing the body"]

\* The answer when the validation error response cannot be written.
InternalServerError == [status |-> 500, species |-> "", confidence |-> 0,
                        message |-> "Internal Server Error"]

PredictionFailed == [status |-> 500, species |-> "", confidence |-> 0, message |-> "Prediction failed"]

RootResponse == [status |-> 200, species |-> "", confidence |-> 0,
                 message |-> "Penguin Species Classification API"]

HealthResponse == [status |-> 200, species |-> "", confidence |-> 0, message |-> "API is running"]

(***************************************************************************)
(* The mock prediction logic of predict_penguin_species                    *)
(***************************************************************************)
\* Mutant: the thresholds are inclusive.
MockPredictionInclusive(features) ==
    IF (Gt(features["bill_length_mm"], 45) \/ features["bill_length_mm"] = Finite(FALSE, Decimal(<<4, 5>>, 0)))
    THEN [species |-> "Gentoo", confidence |-> 85]
    ELSE IF (Gt(features["bill_depth_mm"], 18) \/ features["bill_depth_mm"] = Finite(FALSE, Decimal(<<1, 8>>, 0)))
         THEN [species |-> "Adelie", confidence |-> 78]
         ELSE [species |-> "Chinstrap", confidence |-> 82]

\* Mutant: the features are read from a module-level variable that every request
\* overwrites (here the one of connection 1) instead of the request's own.
MockPredictionShared(features) ==
    IF Gt(reqs[1].features["bill_length_mm"], 45)
    THEN [species |-> "Gentoo", confidence |-> 85]
    ELSE IF Gt(reqs[1].features["bill_depth_mm"], 18)
         THEN [species |-> "Adelie", confidence |-> 78]
         ELSE [species |-> "Chinstrap", confidence |-> 82]

MockPrediction(features) ==
    IF Gt(features["bill_length_mm"], 45)
    THEN [species |-> "Gentoo", confidence |-> 85]
    ELSE IF Gt(features["bill_depth_mm"], 18)
         THEN [species |-> "Adelie", confidence |-> 78]
         ELSE [species |-> "Chinstrap", confidence |-> 82]

\* Whether the try block raises: comparing floats and building a
\* PredictionResponse from a str and a float raise nothing.
PredictionRaises(features) == FALSE

(***************************************************************************)
(* Serving: one slot per client connection                                 *)
(***************************************************************************)
IdleRequest == [st |-> "idle", route |-> "", body |-> NoBody, features |-> NoFeatures,
                response |-> NoResponse, ran |-> FALSE]

Clients == DOMAIN reqs

\* The connections a request may arrive on.
IdleClients == {i \in Clients : reqs[i].st = "idle"}

\* A request arrives on connection i.
Receive(i, route, body) ==
    /\ reqs[i].st = "idle"
    /\ reqs' = [reqs EXCEPT ![i] = [IdleRequest EXCEPT !.st = "received",
                                                       !.route = route, !.body = body]]
    /\ UNCHANGED <<errorLog, trainingVars>>

\* GET /
root(i) ==
    /\ reqs[i].st = "received"
    /\ reqs[i].route = "/"
    /\ reqs' = [reqs EXCEPT ![i].st = "responded", ![i].response = RootResponse]
    /\ UNCHANGED <<errorLog, trainingVars>>

\* GET /health
health_check(i) ==
    /\ reqs[i].st = "received"
    /\ reqs[i].route = "/health"
    /\ reqs' = [reqs EXCEPT ![i].st = "responded", ![i].response = HealthResponse]
    /\ UNCHANGED <<errorLog, trainingVars>>

\* POST /predict, before the endpoint function: the body is read (400 when
\* json.loads raises) and validated into the `features` parameter, or the
\* request is answered 422 (500 when that response cannot be written).
ValidateBody(i) ==
    /\ reqs[i].st = "received"
    /\ reqs[i].route = "/predict"
    /\ LET body == reqs[i].body
           v == PenguinFeatures(body)
       IN  reqs' = IF ~JsonLoads(body)
                   THEN [reqs EXCEPT ![i].st = "responded", ![i].response = BadRequest]
                   ELSE IF v.ok
                   THEN [reqs EXCEPT ![i].st = "validated", ![i].features = v.features]
                   ELSE IF ErrorsSerializable(body)
                   THEN [reqs EXCEPT ![i].st = "responded", ![i].response = ValidationError]
                   ELSE [reqs EXCEPT ![i].st = "responded", ![i].response = InternalServerError]
    /\ UNCHANGED <<errorLog, trainingVars>>

\* POST /predict, the endpoint function.
predict_penguin_species(i) ==
    /\ reqs[i].st = "validated"
    /\ LET features == reqs[i].features
           p == MockPrediction(features)
       IN  IF PredictionRaises(features)
           THEN /\ errorLog' = Append(errorLog, "Prediction failed")
                /\ reqs' = [reqs EXCEPT ![i].st = "responded", ![i].ran = TRUE,
                                        ![i].response = PredictionFailed]
           ELSE /\ errorLog' = errorLog
                /\ reqs' = [reqs EXCEPT ![i].st = "responded", ![i].ran = TRUE,
                                        ![i].response =
                                            PredictionResponse(p.species, p.confidence)]
    /\ UNCHANGED trainingVars

\* The response is sent and the connection is free for the next request.
Respond(i) ==
    /\ reqs[i].st = "responded"
    /\ reqs' = [reqs EXCEPT ![i] = IdleRequest]
    /\ UNCHANGED <<errorLog, trainingVars>>

(***************************************************************************)
(* Training: data frames                                                   *)
(*                                                                         *)
(* A frame is its list of column names and its list of rows; a row maps    *)
(* each column name to a cell, and a cell is text.  NA is the missing      *)
(* value.                                                                  *)
(***************************************************************************)
NA == "NaN"

NoFrame == [columns |-> <<>>, rows |-> <<>>]

\* The seven columns of the frame sns.load_dataset("penguins") returns: the
\* label, the island, the four measurements and the sex.  It has no column
\* "year".
RawColumns ==
    <<"species", "island", "bill_length_mm", "bill_depth_mm", "flipper_length_mm",
      "body_mass_g", "sex">>

\* A record of the dataset, with the measurements of its first record.  The
\* dataset spells the sexes "Male" and "Female".
PenguinRow(species, island, sex) ==
    [species |-> species, island |-> island, bill_length_mm |-> "39.1",
     bill_depth_mm |-> "18.7", flipper_length_mm |-> "181.0", body_mass_g |-> "3750.0",
     sex |-> sex]

\* Records with every value present: one species on every island and of both
\* sexes, and a record of each of the other two species.
CompleteRows ==
    {PenguinRow("Adelie", "Torgersen", "Male"),
     PenguinRow("Adelie", "Biscoe", "Female"),
     PenguinRow("Adelie", "Dream", "Male"),
     PenguinRow("Gentoo", "Biscoe", "Female"),
     PenguinRow("Chinstrap", "Dream", "Female")}

\* Records with one value missing: the label, a categorical feature or a
\* numeric feature.
IncompleteRows ==
    {[PenguinRow("Adelie", "Dream", "Female") EXCEPT ![c] = NA] :
        c \in {"species", "island", "sex", "body_mass_g"}}

SampleRows == CompleteRows \cup IncompleteRows

\* The longest dataset.
MaxRows == 4

\* The frames sns.load_dataset returns when it returns: any list of at most
\* MaxRows of the sample records, under the seven columns.
RawDatasets ==
    {[columns |-> RawColumns, rows |-> [k \in 1..n |-> rs[k]]] :
        <<n, rs>> \in {<<m, r>> \in (0..MaxRows) \X [1..MaxRows -> SampleRows] :
                          \A k \in (m + 1)..MaxRows : r[k] = r[1]}}

\* Mutant: dropna(subset=['species']), only the label is looked at.
DropNaLabelOnly(frame) ==
    [columns |-> frame.columns,
     rows |-> SelectSeq(frame.rows, LAMBDA r : r["species"] # NA)]

\* DataFrame.dropna(): the rows without a missing value in any column, in order.
DropNa(frame) ==
    [columns |-> frame.columns,
     rows |-> SelectSeq(frame.rows, LAMBDA r : \A c \in Range(frame.columns) : r[c] # NA)]

\* sorted(): the values of S in lexicographic order, read off the ordered list
\* of the values the datasets carry.
ValueOrder(c) ==
    CASE c = "sex" -> <<"Female", "Male">>
      [] c = "island" -> <<"Biscoe", "Dream", "Torgersen">>
      [] c = "species" -> <<"Adelie", "Chinstrap", "Gentoo">>

SortedDistinct(frame, c) ==
    SelectSeq(ValueOrder(c), LAMBDA v : \E k \in 1..Len(frame.rows) : frame.rows[k][c] = v)

\* The indicator columns pd.get_dummies makes for column c: one per value of c
\* that occurs in the frame, named c_value, in sorted order of the values.
DummyColumns(frame, c) ==
    [k \in 1..Len(SortedDistinct(frame, c)) |->
        [name |-> c \o "_" \o SortedDistinct(frame, c)[k], column |-> c,
         value |-> SortedDistinct(frame, c)[k]]]

\* pd.get_dummies(frame, columns=encoded): the other columns in their order,
\* then the indicator columns of each encoded column in the order of `encoded`.
GetDummies(frame, encoded) ==
    LET kept == SelectSeq(frame.columns, LAMBDA c : c \notin Range(encoded))
        dummies == DummyColumns(frame, encoded[1]) \o DummyColumns(frame, encoded[2])
        names == kept \o [k \in 1..Len(dummies) |-> dummies[k].name]
        Encode(r) ==
            [n \in Range(names) |->
                IF n \in Range(kept)
                THEN r[n]
                ELSE LET d == CHOOSE d \in Range(dummies) : d.name = n
                     IN  IF r[d.column] = d.value THEN "True" ELSE "False"]
    IN  [columns |-> names, rows |-> [k \in 1..Len(frame.rows) |-> Encode(frame.rows[k])]]

\* The feature list the script spells out.  It names "year", "sex_female" and
\* "sex_male"; the encoded frame has no "year" and spells its indicator columns
\* "sex_Female" and "sex_Male".
feature_columns ==
    <<"bill_length_mm", "bill_depth_mm", "flipper_length_mm", "body_mass_g", "year",
      "sex_female", "sex_male", "island_Biscoe", "island_Dream", "island_Torgersen">>

\* frame[columns]: the named columns in the order named; KeyError when one of
\* them is not a column of the frame.
SelectColumns(frame, columns) ==
    IF Range(columns) \subseteq Range(frame.columns)
    THEN [ok |-> TRUE,
          frame |-> [columns |-> columns,
                     rows |-> [k \in 1..Len(frame.rows) |->
                                  [c \in Range(columns) |-> frame.rows[k][c]]]]]
    ELSE [ok |-> FALSE, frame |-> NoFrame]

\* LabelEncoder.fit_transform: classes_ is the sorted distinct labels and y the
\* index of each row's label in it, from 0.
IndexOf(s, v) == CHOOSE k \in 1..Len(s) : s[k] = v

FitTransform(frame, c) ==
    LET classes == SortedDistinct(frame, c)
    IN  [classes |-> classes,
         y |-> [k \in 1..Len(frame.rows) |-> IndexOf(classes, frame.rows[k][c]) - 1]]

\* train_test_split(test_size=0.2): ceil(0.2 * n) rows are held out.
TestSize(n) == (n + 4) \div 5

(***************************************************************************)
(* Training: the files under app/data                                      *)
(***************************************************************************)
NoAccuracy == [correct |-> 0, total |-> 0]

AbsentFile == [state |-> "absent", run |-> 0, feature_columns |-> <<>>,
               species_classes |-> <<>>, accuracy |-> NoAccuracy]

\* model.json as save_model leaves it: the parameters of the model of run r.
ModelFile(r) == [AbsentFile EXCEPT !.state = "complete", !.run = r]

\* model_info.json right after open(..., "w"): the file exists and is empty.
TruncatedFile(r) == [AbsentFile EXCEPT !.state = "truncated", !.run = r]

\* model_info.json after json.dump of the dict model_info.
ModelInfoFile(r, columns, classes, acc) ==
    [state |-> "complete", run |-> r, feature_columns |-> columns,
     species_classes |-> classes, accuracy |-> acc]

EmptyDisk == [dir |-> FALSE, model_json |-> AbsentFile, model_info_json |-> AbsentFile]

\* This execution of the script is run 1.
ThisRun == 1

(***************************************************************************)
(* Training: train_advanced_model, one action per statement                *)
(***************************************************************************)
NoLabels == [classes |-> <<>>, y |-> <<>>]

NoSplit == [train |-> {}, test |-> {}]

NoModel == [fitted |-> FALSE, columns |-> <<>>, rows |-> {}, n_classes |-> 0]

\* An exception leaves the function: the run ends, the disk stays as it is.
Raise(e) ==
    /\ pc' = "failed"
    /\ error' = e

\* df = sns.load_dataset("penguins"), when the call raises: the file is not in
\* the cache and cannot be fetched.  The exception leaves the function.
LoadDatasetRaises ==
    /\ pc = "load"
    /\ Raise("URLError")
    /\ UNCHANGED <<servingVars, raw, df, df_encoded, labels, X, split, model, accuracy, disk>>

\* df = sns.load_dataset("penguins"), when the call returns the frame.
LoadDataset ==
    /\ pc = "load"
    /\ df' = raw
    /\ pc' = "dropna"
    /\ UNCHANGED <<servingVars, raw, df_encoded, labels, X, split, model, accuracy, disk, error>>

\* df = df.dropna()
DropIncomplete ==
    /\ pc = "dropna"
    /\ df' = DropNa(df)
    /\ pc' = "get_dummies"
    /\ UNCHANGED <<servingVars, raw, df_encoded, labels, X, split, model, accuracy, disk, error>>

\* df_encoded = pd.get_dummies(df.copy(), columns=['sex', 'island'])
EncodeCategories ==
    /\ pc = "get_dummies"
    /\ df_encoded' = GetDummies(df, <<"sex", "island">>)
    /\ pc' = "label_encode"
    /\ UNCHANGED <<servingVars, raw, df, labels, X, split, model, accuracy, disk, error>>

\* y = label_encoder.fit_transform(df['species'])
EncodeLabels ==
    /\ pc = "label_encode"
    /\ labels' = FitTransform(df, "species")
    /\ pc' = "select"
    /\ UNCHANGED <<servingVars, raw, df, df_encoded, X, split, model, accuracy, disk, error>>

\* X = df_encoded[feature_columns]
SelectFeatures ==
    /\ pc = "select"
    /\ LET sel == SelectColumns(df_encoded, feature_columns)
       IN  IF sel.ok
           THEN X' = sel.frame /\ pc' = "split" /\ UNCHANGED error
           ELSE X' = X /\ Raise("KeyError")
    /\ UNCHANGED <<servingVars, raw, df, df_encoded, labels, split, model, accuracy, disk>>

\* train_test_split(X, y, test_size=0.2, random_state=42): ValueError when the
\* train partition would be empty; otherwise the seeded shuffle holds out
\* TestSize(n) of the n rows (which ones is the generator's choice).
TrainTestSplit ==
    /\ pc = "split"
    /\ LET n == Len(X.rows)
       IN  IF n - TestSize(n) <= 0
           THEN split' = split /\ Raise("ValueError")
           ELSE /\ \E test \in SUBSET (1..n) :
                      /\ Cardinality(test) = TestSize(n)
                      /\ split' = [train |-> (1..n) \ test, test |-> test]
                /\ pc' = "fit"
                /\ UNCHANGED error
    /\ UNCHANGED <<servingVars, raw, df, df_encoded, labels, X, model, accuracy, disk>>

\* The labels of the train partition.
TrainLabels == {labels.y[k] : k \in split.train}

\* Whether the library is sure to fit: the estimator is configured with
\* objective='multi:softprob', and xgboost sets the class count of that
\* objective itself only when y_train holds the labels 0..k-1 of k > 2 classes.
FitCertain == Cardinality(TrainLabels) > 2 /\ TrainLabels = 0..(Cardinality(TrainLabels) - 1)

\* model = xgb.XGBClassifier(...); model.fit(X_train, y_train)
FitModel ==
    /\ pc = "fit"
    /\ \E raises \in IF FitCertain THEN {FALSE} ELSE BOOLEAN :
          IF raises
          THEN model' = model /\ Raise("XGBoostError")
          ELSE /\ model' = [fitted |-> TRUE, columns |-> X.columns, rows |-> split.train,
                            n_classes |-> Cardinality(TrainLabels)]
               /\ pc' = "score"
               /\ UNCHANGED error
    /\ UNCHANGED <<servingVars, raw, df, df_encoded, labels, X, split, accuracy, disk>>

\* accuracy = model.score(X_test, y_test): the share of the held-out rows the
\* fitted model labels correctly.
ScoreModel ==
    /\ pc = "score"
    /\ \E correct \in 0..Cardinality(split.test) :
          accuracy' = [correct |-> correct, total |-> Cardinality(split.test)]
    /\ pc' = "makedirs"
    /\ UNCHANGED <<servingVars, raw, df, df_encoded, labels, X, split, model, disk, error>>

\* os.makedirs("app/data", exist_ok=True)
MakeDirs ==
    /\ pc = "makedirs"
    /\ disk' = [disk EXCEPT !.dir = TRUE]
    /\ pc' = "save_model"
    /\ UNCHANGED <<servingVars, raw, df, df_encoded, labels, X, split, model, accuracy, error>>

\* model.save_model("app/data/model.json")
SaveModel ==
    /\ pc = "save_model"
    /\ disk' = [disk EXCEPT !.model_json = ModelFile(ThisRun)]
    /\ pc' = "open_info"
    /\ UNCHANGED <<servingVars, raw, df, df_encoded, labels, X, split, model, accuracy, error>>

\* with open("app/data/model_info.json", "w") as f:
OpenModelInfo ==
    /\ pc = "open_info"
    /\ disk' = [disk EXCEPT !.model_info_json = TruncatedFile(ThisRun)]
    /\ pc' = "dump_info"
    /\ UNCHANGED <<servingVars, raw, df, df_encoded, labels, X, split, model, accuracy, error>>

\* model_info = {...}; json.dump(model_info, f, indent=2)
DumpModelInfo ==
    /\ pc = "dump_info"
    /\ disk' = [disk EXCEPT !.model_info_json =
                    ModelInfoFile(ThisRun, feature_columns, labels.classes, accuracy)]
    /\ pc' = "done"
    /\ UNCHANGED <<servingVars, raw, df, df_encoded, labels, X, split, model, accuracy, error>>

\* The process is killed between two statements: its memory is gone, the disk
\* stays as it is.
Interrupt ==
    /\ pc \notin {"off", "done", "failed", "interrupted"}
    /\ pc' = "interrupted"
    /\ df' = NoFrame
    /\ df_encoded' = NoFrame
    /\ labels' = NoLabels
    /\ X' = NoFrame
    /\ split' = NoSplit
    /\ model' = NoModel
    /\ accuracy' = NoAccuracy
    /\ UNCHANGED <<servingVars, raw, disk, error>>

(***************************************************************************)
(* Specifications                                                          *)
(***************************************************************************)
\* The number of client connections of the concurrent specification.
NumClients == 2

TrainingOff ==
    /\ pc = "off"
    /\ raw = NoFrame
    /\ df = NoFrame
    /\ df_encoded = NoFrame
    /\ labels = NoLabels
    /\ X = NoFrame
    /\ split = NoSplit
    /\ model = NoModel
    /\ accuracy = NoAccuracy
    /\ disk = EmptyDisk
    /\ error = ""

\* Serving, one request at a time, over every body of Bodies.
Init ==
    /\ reqs = [i \in {1} |-> IdleRequest]
    /\ errorLog = <<>>
    /\ TrainingOff

Next ==
    \/ \E i \in IdleClients, body \in Bodies : Receive(i, "/predict", body)
    \/ \E i \in IdleClients, route \in {"/", "/health"} : Receive(i, route, NoBody)
    \/ \E i \in Clients : root(i)
    \/ \E i \in Clients : health_check(i)
    \/ \E i \in Clients : ValidateBody(i)
    \/ \E i \in Clients : predict_penguin_species(i)
    \/ \E i \in Clients : Respond(i)

Spec == Init /\ [][Next]_vars

\* Serving, NumClients requests in flight at once, over the bodies of ConcBodies.
ConcInit ==
    /\ reqs = [i \in 1..NumClients |-> IdleRequest]
    /\ errorLog = <<>>
    /\ TrainingOff

ConcNext ==
    \/ \E i \in IdleClients, body \in ConcBodies : Receive(i, "/predict", body)
    \/ \E i \in Clients : ValidateBody(i)
    \/ \E i \in Clients : predict_penguin_species(i)
    \/ \E i \in Clients : Respond(i)

ConcSpec == ConcInit /\ [][ConcNext]_vars

\* One execution of the training script, on any dataset of RawDatasets, with
\* app/data not yet made.
TrainInit ==
    /\ reqs = <<>>
    /\ errorLog = <<>>
    /\ pc = "load"
    /\ raw \in RawDatasets
    /\ df = NoFrame
    /\ df_encoded = NoFrame
    /\ labels = NoLabels
    /\ X = NoFrame
    /\ split = NoSplit
    /\ model = NoModel
    /\ accuracy = NoAccuracy
    /\ disk = EmptyDisk
    /\ error = ""

\* The statements of lines 13 to 29.  SelectFeatures raises on every frame of
\* RawDatasets (see StatementsAfterSelectUnreached), so the statements from line
\* 32 on, TrainTestSplit to DumpModelInfo, take no step in any run.
TrainNext ==
    \/ LoadDatasetRaises
    \/ LoadDataset
    \/ DropIncomplete
    \/ EncodeCategories
    \/ EncodeLabels
    \/ SelectFeatures
    \/ Interrupt

TrainSpec == TrainInit /\ [][TrainNext]_vars

(***************************************************************************)
(* Properties of the serving application                                   *)
(***************************************************************************)
Predicts(i) == reqs[i].route = "/predict"

Answered(i) == Predicts(i) /\ reqs[i].st = "responded"

\* C1 as claimed: a POST /predict body that lacks one of the four required
\* fields, or gives a value that is not a number for one of them, is answered
\* 422 and the prediction logic is never run for it.
C1_NonNumberRejected ==
    \A i \in Clients :
        (Predicts(i) /\ \E f \in RequiredFieldSet : reqs[i].body[f].kind # "number") =>
            /\ reqs[i].st # "validated"
            /\ ~reqs[i].ran
            /\ (reqs[i].st = "responded" => reqs[i].response.status = 422)

\* The label list training persists: species_classes of model_info.json, empty
\* while the file is not written.
PersistedLabels == Range(disk.model_info_json.species_classes)

\* C2 as claimed: a request that passed validation (the endpoint function ran
\* for it), and in particular every request whose four measurements are
\* numbers, is answered 200 with a species of the label list training
\* persists and a confidence in [0, 1].
C2_NumbersAnswered ==
    \A i \in Clients :
        (Answered(i) /\ (reqs[i].ran \/ \A f \in RequiredFieldSet : reqs[i].body[f].kind = "number")) =>
            /\ reqs[i].response.status = 200
            /\ reqs[i].response.species \in PersistedLabels
            /\ reqs[i].response.confidence >= 0
            /\ reqs[i].response.confidence <= 100

\* The vector of measurements a validated request carries.
FeatureVector(features) == [k \in 1..Len(RequiredFields) |-> features[RequiredFields[k]]]

\* C3: no prediction is returned for a feature vector whose length differs from
\* the length of the schema training persists (feature_columns).
C3_DimensionChecked ==
    \A i \in Clients :
        (Answered(i) /\ reqs[i].response.status = 200) =>
            Len(FeatureVector(reqs[i].features)) = Len(feature_columns)

\* C4: a record whose sex is a category absent from training ("unknown") is
\* answered with the error UnknownCategory and is never scored.
C4_UnknownCategoryRejected ==
    \A i \in Clients :
        (Predicts(i) /\ reqs[i].body.sex = JString(Str_unknown)) =>
            /\ ~reqs[i].ran
            /\ (reqs[i].st = "responded" => reqs[i].response.message = "UnknownCategory")

\* C9, first half: two requests with identical records that are both answered
\* carry identical responses, whatever the interleaving of the requests.
SameRecordSameResponse ==
    \A i, j \in Clients :
        (Answered(i) /\ Answered(j) /\ reqs[i].body = reqs[j].body) =>
            reqs[i].response = reqs[j].response

\* C9, second half: a step of one request changes neither another request nor
\* the shared log.
RequestIsolated ==
    /\ errorLog' = errorLog
    /\ \A i \in Clients : reqs'[i] # reqs[i] => \A j \in Clients \ {i} : reqs'[j] = reqs[j]

\* C9: predict is side-effect-free and safe under concurrency: no request
\* changes shared state or another request, and requests with identical records
\* get identical responses.
C9_ConcurrentPredict == [](SameRecordSameResponse) /\ [][RequestIsolated]_vars

\* C9, witness: two connections hold answers to the same record at once.
C9_Witness ==
    \E i, j \in Clients :
        /\ i # j
        /\ Answered(i) /\ Answered(j)
        /\ reqs[i].body = reqs[j].body
        /\ reqs[i].response.status = 200
        /\ reqs[j].response.status = 200

\* The bill lengths of the bodies that Python holds to be greater than 45:
\* "\u000b46.5 " (46.5), "1e2" (100.0), 45.00000000000001 and 45.1.
BillLengthOver45 ==
    {JString(Str_46_5_padded), JString(Str_1e2), Num_45_1e14, JFloat(FALSE, <<4, 5, 1>>, -1)}

\* The other bill lengths that pass validation: true (1.0), "nan" and NaN
\* (greater than nothing), 39.1, 45, and 45.000000000000001, which is the
\* float 45.0.
BillLengthUpTo45 ==
    {JBool(TRUE), JString(Str_nan), JNaN, JFloat(FALSE, <<3, 9, 1>>, -1),
     JInt(FALSE, <<4, 5>>, 0), Num_45_1e15}

\* The bill depths of the bodies that Python holds to be greater than 18:
\* "inf", 18.7 and 1e400 (inf).
BillDepthOver18 ==
    {JString(Str_inf), JFloat(FALSE, <<1, 8, 7>>, -1), JFloat(FALSE, <<1>>, 400)}

\* The other bill depths that pass validation: "1_8" (18.0), 17, 18, and
\* 18.000000000000001, which is the float 18.0.
BillDepthUpTo18 ==
    {JString(Str_1_8), JInt(FALSE, <<1, 7>>, 0), JInt(FALSE, <<1, 8>>, 0), Num_18_1e15}

\* C10: the response is (Gentoo, 0.85) if bill_length_mm > 45, whatever the
\* other measurements; otherwise (Adelie, 0.78) if bill_depth_mm > 18; otherwise
\* (Chinstrap, 0.82).  45 and 18 themselves fall to the later branch, and the
\* response is a function of these two measurements alone: flipper_length_mm
\* and body_mass_g, which vary over the requests, do not enter it.
C10_DecisionRule ==
    \A i \in Clients :
        (Answered(i) /\ reqs[i].ran) =>
            LET bl == reqs[i].body.bill_length_mm
                bd == reqs[i].body.bill_depth_mm
                r == reqs[i].response
            IN  /\ bl \in BillLengthOver45 \cup BillLengthUpTo45
                /\ bd \in BillDepthOver18 \cup BillDepthUpTo18
                /\ r.status = 200
                /\ bl \in BillLengthOver45 => r.species = "Gentoo" /\ r.confidence = 85
                /\ (bl \in BillLengthUpTo45 /\ bd \in BillDepthOver18) =>
                       r.species = "Adelie" /\ r.confidence = 78
                /\ (bl \in BillLengthUpTo45 /\ bd \in BillDepthUpTo18) =>
                       r.species = "Chinstrap" /\ r.confidence = 82

\* C10, witness: a request at both boundary values, with the second of the
\* flipper lengths and of the body masses, has been answered Chinstrap.
C10_Witness ==
    \E i \in Clients :
        /\ Answered(i) /\ reqs[i].ran
        /\ reqs[i].body.bill_length_mm = JInt(FALSE, <<4, 5>>, 0)
        /\ reqs[i].body.bill_depth_mm = JInt(FALSE, <<1, 8>>, 0)
        /\ reqs[i].body.flipper_length_mm = JInt(FALSE, <<2, 1, 7>>, 0)
        /\ reqs[i].body.body_mass_g = JInt(FALSE, <<5, 0, 0, 0>>, 0)
        /\ reqs[i].response.species = "Chinstrap"
        /\ reqs[i].response.confidence = 82

(***************************************************************************)
(* Properties of the training script                                       *)
(***************************************************************************)
\* The positions, in dataset order, of the records of the raw dataset with
\* every value present.
CompleteRaw ==
    SelectSeq([k \in 1..Len(raw.rows) |-> k],
              LAMBDA k : \A c \in Range(raw.columns) : raw.rows[k][c] # NA)

\* No run gets past line 29: the statements from train_test_split on are never
\* executed and app/data is never touched.
StatementsAfterSelectUnreached ==
    /\ pc \notin {"split", "fit", "score", "makedirs", "save_model", "open_info",
                  "dump_info", "done"}
    /\ disk = EmptyDisk

\* The species among the complete records of the raw dataset.
CleanedSpecies == {raw.rows[k]["species"] : k \in Range(CompleteRaw)}

\* C6: on a loaded dataset with fewer than two distinct species among the
\* complete records, no classifier is fitted, no file is written, and the run
\* ends with the error InsufficientClasses.
C6_InsufficientClasses ==
    (Cardinality(CleanedSpecies) < 2 /\ error # "URLError") =>
        /\ pc \notin {"fit", "score", "makedirs", "save_model", "open_info", "dump_info", "done"}
        /\ disk.model_json.run # ThisRun
        /\ disk.model_info_json.run # ThisRun
        /\ pc = "failed" => error = "InsufficientClasses"

\* C7: for every cleaned dataset a classifier can be trained on (two species
\* or more), also one in which a sex or an island does not occur, selecting
\* the feature columns succeeds, and the feature_columns a completed run has
\* persisted are the columns of the encoded data but the label, in order.
C7_SchemaFromEncodedData ==
    Cardinality(CleanedSpecies) >= 2 =>
        /\ error # "KeyError"
        /\ pc = "done" =>
               disk.model_info_json.feature_columns =
                   SelectSeq(df_encoded.columns, LAMBDA c : c # "species")

\* C8: after dropna the frame holds exactly the complete records of the raw
\* dataset, in order and unchanged, and the encoded frame the features are
\* selected from holds the same records with their measurements unchanged.
C8_IncompleteDropped ==
    (pc \in {"get_dummies", "label_encode", "select"} \/ (pc = "failed" /\ error = "KeyError")) =>
        LET complete == CompleteRaw
        IN  /\ Len(df.rows) = Len(complete)
            /\ \A j \in 1..Len(df.rows) :
                  /\ df.rows[j] = raw.rows[complete[j]]
                  /\ \A c \in Range(raw.columns) : df.rows[j][c] # NA
            /\ pc # "get_dummies" =>
                  /\ Len(df_encoded.rows) = Len(complete)
                  /\ \A j \in 1..Len(df_encoded.rows) :
                        \A c \in Range(df_encoded.columns) \cap Range(raw.columns) :
                            df_encoded.rows[j][c] = raw.rows[complete[j]][c]

\* C8, witness: a dataset with an incomplete and a complete record has been
\* cleaned and encoded: the incomplete record is gone, the complete one is kept.
C8_Witness ==
    /\ pc = "select"
    /\ Len(df.rows) < Len(raw.rows)
    /\ Len(df.rows) > 0
    /\ Len(df_encoded.rows) = Len(df.rows)

====
